---- MODULE Spec2Model ----
(***************************************************************************)
(* Model of src/transaction_executor.py: a lock-protected account store    *)
(* (AccountState), Transfer transactions that first read the source        *)
(* account (get_account) and then hand a batch of AccountUpdates to        *)
(* execute_updates, and execute_block, which runs the transactions of a    *)
(* block on a thread pool and reads the accounts back after the pool has   *)
(* shut down.                                                              *)
(*                                                                         *)
(* A Python dict keeps insertion order, and execute_block returns          *)
(* accounts.items(); the dict is therefore a sequence of records           *)
(* [name, balance] with pairwise distinct names.                           *)
(***************************************************************************)
EXTENDS Integers, Sequences, FiniteSets

(***************************************************************************)
(* Bounds of the explored inputs.                                          *)
(***************************************************************************)
MaxBalance == 2
MaxValue == 2
MaxTransactions == 2
MaxInitialAccounts == 2

Names == {"A", "B", "C"}

(***************************************************************************)
(* Value types (lines 8-17, 50-54).                                        *)
(***************************************************************************)
AccountValue(name, balance) == [name |-> name, balance |-> balance]

AccountUpdate(name, balance_change) ==
    [name |-> name, balance_change |-> balance_change]

Transfer(from_acc, to_acc, value) ==
    [from_acc |-> from_acc, to_acc |-> to_acc, value |-> value]

(***************************************************************************)
(* dict operations on the insertion-ordered mapping.                       *)
(***************************************************************************)
Max(a, b) == IF a >= b THEN a ELSE b

\* name in accounts
Has(accts, name) == \E i \in 1..Len(accts) : accts[i].name = name

\* accounts.get(name, default)
Get(accts, name, default) ==
    IF Has(accts, name)
    THEN accts[CHOOSE i \in 1..Len(accts) : accts[i].name = name].balance
    ELSE default

\* accounts[name] = balance: an existing key keeps its position, a new key
\* goes to the end.
SetItem(accts, name, balance) ==
    IF Has(accts, name)
    THEN [i \in 1..Len(accts) |->
             IF accts[i].name = name THEN AccountValue(name, balance) ELSE accts[i]]
    ELSE Append(accts, AccountValue(name, balance))

\* {account_value.name: account_value.balance for account_value in values}
RECURSIVE MakeDict(_)
MakeDict(vals) ==
    IF vals = <<>> THEN <<>>
    ELSE LET front == SubSeq(vals, 1, Len(vals) - 1)
             last == vals[Len(vals)]
         IN SetItem(MakeDict(front), last.name, last.balance)

\* [AccountValue(name, balance) for name, balance in accounts.items()]
Items(accts) == [i \in 1..Len(accts) |-> AccountValue(accts[i].name, accts[i].balance)]

(***************************************************************************)
(* Transfer.updates after the read of the source account (lines 58-63).    *)
(***************************************************************************)
\* Variant: <= for <, a transfer of the whole balance is refused.
TransferUpdatesRefusingAll(tr, from_balance) ==
    IF from_balance <= tr.value
    THEN [updates |-> <<>>, success |-> FALSE]
    ELSE [updates |-> << AccountUpdate(tr.from_acc, -tr.value),
                         AccountUpdate(tr.to_acc, tr.value) >>,
          success |-> TRUE]

TransferUpdates(tr, from_balance) ==
    IF from_balance < tr.value
    THEN [updates |-> <<>>, success |-> FALSE]
    ELSE [updates |-> << AccountUpdate(tr.from_acc, -tr.value),
                         AccountUpdate(tr.to_acc, tr.value) >>,
          success |-> TRUE]

(***************************************************************************)
(* execute_updates, one loop iteration at a time (lines 33-42).            *)
(***************************************************************************)
\* Variant: the test looks at the stored balance and forgets the change.
ValidationFailsIgnoringChange(accts, update) ==
    Get(accts, update.name, 0) < 0

\* Variant: no second check; the balance read by get_account is trusted.
ValidationSkipped(accts, update) == FALSE

\* the validation test of one update: TRUE when the batch must be dropped
ValidationFails(accts, update) ==
    Get(accts, update.name, 0) + update.balance_change < 0

\* Variant: an existing balance is overwritten with the change (= for +=).
ApplyUpdateOverwriting(accts, update) ==
    IF Has(accts, update.name)
    THEN SetItem(accts, update.name, update.balance_change)
    ELSE SetItem(accts, update.name, Max(0, update.balance_change))

\* Variant: a new account is put in front of the existing ones.
ApplyUpdateInsertingFirst(accts, update) ==
    IF Has(accts, update.name)
    THEN SetItem(accts, update.name,
                 Get(accts, update.name, 0) + update.balance_change)
    ELSE << AccountValue(update.name, Max(0, update.balance_change)) >> \o accts

\* Variant: a new account is created empty instead of with the change.
ApplyUpdateCreatingEmpty(accts, update) ==
    IF Has(accts, update.name)
    THEN SetItem(accts, update.name,
                 Get(accts, update.name, 0) + update.balance_change)
    ELSE SetItem(accts, update.name, 0)

\* the second loop's body for one update
ApplyUpdate(accts, update) ==
    IF Has(accts, update.name)
    THEN SetItem(accts, update.name,
                 Get(accts, update.name, 0) + update.balance_change)
    ELSE SetItem(accts, update.name, Max(0, update.balance_change))

(***************************************************************************)
(* The same code run without interruption: execute_updates as one call     *)
(* (lines 30-42), process_transaction as one call (lines 77-80), and the   *)
(* transactions of a block one after the other in block order.             *)
(***************************************************************************)
RECURSIVE ApplyAll(_, _)
ApplyAll(accts, ups) ==
    IF ups = <<>> THEN accts
    ELSE ApplyAll(ApplyUpdate(accts, Head(ups)), Tail(ups))

execute_updates(accts, ups) ==
    IF \E i \in 1..Len(ups) : ValidationFails(accts, ups[i])
    THEN accts
    ELSE ApplyAll(accts, ups)

process_transaction(accts, tr) ==
    LET r == TransferUpdates(tr, Get(accts, tr.from_acc, 0))
    IN IF r.success THEN execute_updates(accts, r.updates) ELSE accts

RECURSIVE RunInOrder(_, _)
RunInOrder(accts, trs) ==
    IF trs = <<>> THEN accts
    ELSE RunInOrder(process_transaction(accts, Head(trs)), Tail(trs))

(***************************************************************************)
(* Inputs: the two examples of the source, and every small input.          *)
(***************************************************************************)
account_values_example_1 ==
    << AccountValue("A", 20), AccountValue("B", 30), AccountValue("C", 40) >>
block_example_1 ==
    << Transfer("A", "B", 5), Transfer("B", "C", 10), Transfer("B", "C", 30) >>
expected_output_1 ==
    << AccountValue("A", 15), AccountValue("B", 25), AccountValue("C", 50) >>

account_values_example_2 ==
    << AccountValue("A", 10), AccountValue("B", 20), AccountValue("C", 30),
       AccountValue("D", 40) >>
block_example_2 ==
    << Transfer("A", "B", 5), Transfer("C", "D", 10) >>
expected_output_2 ==
    << AccountValue("A", 5), AccountValue("B", 25), AccountValue("C", 20),
       AccountValue("D", 50) >>

SeqsUpTo(S, n) == UNION { [1..k -> S] : k \in 0..n }

\* Names are only ever compared for equality, so every initial list of k
\* distinct names is, up to renaming, the list of the first k of NameOrder.
NameOrder == << "A", "B", "C" >>

SmallValues ==
    { [i \in 1..k |-> AccountValue(NameOrder[i], b[i])] :
          <<k, b>> \in UNION { {k} \X [1..k -> 0..MaxBalance] :
                                  k \in 0..MaxInitialAccounts } }

SmallBlocks ==
    SeqsUpTo([from_acc : Names, to_acc : Names, value : 0..MaxValue], MaxTransactions)

\* Blocks of two transfers over four names, none shared: the sources may or
\* may not exist, the destinations never do.
DisjointBlocks ==
    { << Transfer("A", "C", v), Transfer("B", "D", w) >> :
          v \in 0..MaxValue, w \in 0..MaxValue }

VARIABLES
    values,        \* execute_block's argument values
    block,         \* execute_block's argument block.transactions
    accounts,      \* account_state.accounts
    lock,          \* account_state._lock: 0 when free, else the task holding it
    main,          \* position of execute_block
    submitted,     \* number of transactions executor.map has submitted
    pc,            \* position of each process_transaction task
    from_account,  \* per task, the balance of the AccountValue get_account returned
    updates,       \* per task, the updates list of process_transaction
    index,         \* per task, the loop position inside execute_updates
    entry,         \* the mapping when the running execute_updates took the lock
    results,       \* the list execute_block returns
    workers,       \* the pool's max_workers
    returned,      \* per task, what its execute_updates call returned
    batch          \* the argument of the latest execute_updates call made
                   \* directly on the ledger (LedgerSpec)

vars == << values, block, accounts, lock, main, submitted, pc, from_account,
           updates, index, entry, results, workers, returned, batch >>

Tasks == 1..Len(block)

Finished == {"abandoned", "rejected", "committed"}

\* os.cpu_count() on the machine that runs execute_block (None is read as 1):
\* a single processor and the largest machine considered
MaxCpus == 4

CpuCounts == {1, MaxCpus}

Min(a, b) == IF a <= b THEN a ELSE b

\* ThreadPoolExecutor() without max_workers: min(32, (os.cpu_count() or 1) + 4)
max_workers(cpu_count) == Min(32, cpu_count + 4)

\* the sizes the pool of line 83 can have
DefaultPools == { max_workers(c) : c \in CpuCounts }

Running == { t \in Tasks : pc[t] \notin ({"new", "queued"} \cup Finished) }

Init ==
    /\ \/ /\ values = account_values_example_1
          /\ block = block_example_1
       \/ /\ values = account_values_example_2
          /\ block = block_example_2
       \/ /\ values \in SmallValues
          /\ block \in SmallBlocks \cup DisjointBlocks
    /\ accounts = MakeDict(values)
    /\ lock = 0
    /\ main = "map"
    /\ submitted = 0
    /\ pc = [t \in Tasks |-> "new"]
    /\ from_account = [t \in Tasks |-> 0]
    /\ updates = [t \in Tasks |-> <<>>]
    /\ index = [t \in Tasks |-> 0]
    /\ entry = <<>>
    /\ results = <<>>
    /\ workers \in DefaultPools
    /\ returned = [t \in Tasks |-> "pending"]
    /\ batch = <<>>

(***************************************************************************)
(* The lock (threading.Lock used as a context manager).                    *)
(***************************************************************************)
\* Variant: the lock is taken without waiting for it to be free.
AcquireWithoutWaiting(t) == lock' = t

Acquire(t) == lock = 0 /\ lock' = t

Release(t) == lock' = 0

(***************************************************************************)
(* What execute_updates hands back: the bare return of line 36 when a      *)
(* check fails, and the end of the function body (line 42) when the batch  *)
(* was applied; `applied` tells the two paths apart.                       *)
(***************************************************************************)
\* Variant: the call reports its outcome as a boolean.
ReturnValueBoolean(applied) == IF applied THEN "True" ELSE "False"

ReturnValue(applied) == "None"

Returns(t, applied) == returned' = [returned EXCEPT ![t] = ReturnValue(applied)]

(***************************************************************************)
(* execute_block, main thread.                                             *)
(***************************************************************************)
\* executor.map submits the transactions in block order (line 84)
Submit ==
    /\ main = "map"
    /\ submitted < Len(block)
    /\ submitted' = submitted + 1
    /\ pc' = [pc EXCEPT ![submitted + 1] = "queued"]
    /\ UNCHANGED << values, block, workers, batch,
                    returned,
                    accounts, lock, main, from_account, updates,
                    index, entry, results >>

\* executor.map has returned; the with block exits into shutdown(wait=True)
MapDone ==
    /\ main = "map"
    /\ submitted = Len(block)
    /\ main' = "shutdown"
    /\ UNCHANGED << values, block, workers, batch,
                    returned,
                    accounts, lock, submitted, pc, from_account,
                    updates, index, entry, results >>

\* Variant: shutdown(wait=False), the pool is left without joining its threads.
ShutdownWithoutWaiting == TRUE

\* what shutdown(wait=True) waits for: every worker thread has run out of work
AllTasksFinished == \A t \in Tasks : pc[t] \in Finished

Join ==
    /\ main = "shutdown"
    /\ AllTasksFinished
    /\ main' = "joined"
    /\ UNCHANGED << values, block, workers, batch,
                    returned,
                    accounts, lock, submitted, pc, from_account,
                    updates, index, entry, results >>

\* line 86: the return value is built from accounts.items(), without the lock
ReadBack ==
    /\ main = "joined"
    /\ results' = Items(accounts)
    /\ main' = "returned"
    /\ UNCHANGED << values, block, workers, batch,
                    returned,
                    accounts, lock, submitted, pc, from_account,
                    updates, index, entry >>

(***************************************************************************)
(* process_transaction, one task per transaction (lines 77-80).            *)
(***************************************************************************)
\* a worker thread takes the oldest queued work item
Start(t) ==
    /\ pc[t] = "queued"
    /\ \A u \in Tasks : u < t => pc[u] # "queued"
    /\ Cardinality(Running) < workers
    /\ pc' = [pc EXCEPT ![t] = "get_account"]
    /\ UNCHANGED << values, block, workers, batch,
                    returned,
                    accounts, lock, main, submitted, from_account,
                    updates, index, entry, results >>

\* get_account: with self._lock (line 26)
GetAccountLock(t) ==
    /\ pc[t] = "get_account"
    /\ Acquire(t)
    /\ pc' = [pc EXCEPT ![t] = "get_account_read"]
    /\ UNCHANGED << values, block, workers, batch,
                    returned,
                    accounts, main, submitted, from_account,
                    updates, index, entry, results >>

\* Variant: the read inserts a missing account (setdefault instead of get).
GetAccountReadInserting(t) ==
    /\ pc[t] = "get_account_read"
    /\ from_account' = [from_account EXCEPT ![t] = Get(accounts, block[t].from_acc, 0)]
    /\ accounts' = IF Has(accounts, block[t].from_acc) THEN accounts
                   ELSE SetItem(accounts, block[t].from_acc, 0)
    /\ Release(t)
    /\ pc' = [pc EXCEPT ![t] = "updates"]
    /\ UNCHANGED << values, block, workers, batch,
                    returned,
                    main, submitted, updates, index, entry, results >>

\* get_account: lines 27-28, and the lock is released on the way out
GetAccountRead(t) ==
    /\ pc[t] = "get_account_read"
    /\ from_account' = [from_account EXCEPT ![t] = Get(accounts, block[t].from_acc, 0)]
    /\ Release(t)
    /\ pc' = [pc EXCEPT ![t] = "updates"]
    /\ UNCHANGED << values, block, workers, batch,
                    returned,
                    accounts, main, submitted, updates, index,
                    entry, results >>

\* Transfer.updates lines 58-63 and process_transaction line 79
Propose(t) ==
    /\ pc[t] = "updates"
    /\ LET r == TransferUpdates(block[t], from_account[t])
       IN /\ updates' = [updates EXCEPT ![t] = r.updates]
          /\ pc' = [pc EXCEPT ![t] = IF r.success THEN "execute_updates"
                                                   ELSE "abandoned"]
    /\ UNCHANGED << values, block, workers, batch,
                    returned,
                    accounts, lock, main, submitted, from_account,
                    index, entry, results >>

\* execute_updates: with self._lock (line 31); with nothing to iterate over,
\* both loops are skipped and the lock is released at once
ExecuteUpdatesLock(t) ==
    /\ pc[t] = "execute_updates"
    /\ IF updates[t] = <<>>
       THEN /\ lock = 0
            /\ pc' = [pc EXCEPT ![t] = "committed"]
            /\ Returns(t, TRUE)
            /\ UNCHANGED << lock, index, entry >>
       ELSE /\ Acquire(t)
            /\ entry' = accounts
            /\ index' = [index EXCEPT ![t] = 1]
            /\ pc' = [pc EXCEPT ![t] = "validate"]
            /\ UNCHANGED returned
    /\ UNCHANGED << values, block, workers, batch,
                    accounts, main, submitted, from_account,
                    updates, results >>

\* Variant: the early return of a failed validation keeps the lock.
ValidateKeepingLock(t) ==
    /\ pc[t] = "validate"
    /\ IF ValidationFails(accounts, updates[t][index[t]])
       THEN /\ pc' = [pc EXCEPT ![t] = "rejected"]
            /\ index' = [index EXCEPT ![t] = 0]
            /\ entry' = <<>>
            /\ Returns(t, FALSE)
            /\ UNCHANGED lock
       ELSE /\ IF index[t] < Len(updates[t])
               THEN /\ index' = [index EXCEPT ![t] = index[t] + 1]
                    /\ pc' = pc
               ELSE /\ index' = [index EXCEPT ![t] = 1]
                    /\ pc' = [pc EXCEPT ![t] = "apply"]
            /\ UNCHANGED << lock, entry, returned >>
    /\ UNCHANGED << values, block, workers, batch,
                    accounts, main, submitted, from_account,
                    updates, results >>

\* Variant: a batch that fails validation sends its transaction back to the
\* read of the source account instead of dropping it.
ValidateRetrying(t) ==
    /\ pc[t] = "validate"
    /\ IF ValidationFails(accounts, updates[t][index[t]])
       THEN /\ pc' = [pc EXCEPT ![t] = "get_account"]
            /\ index' = [index EXCEPT ![t] = 0]
            /\ entry' = <<>>
            /\ Release(t)
            /\ UNCHANGED returned
       ELSE /\ IF index[t] < Len(updates[t])
               THEN /\ index' = [index EXCEPT ![t] = index[t] + 1]
                    /\ pc' = pc
               ELSE /\ index' = [index EXCEPT ![t] = 1]
                    /\ pc' = [pc EXCEPT ![t] = "apply"]
            /\ UNCHANGED << lock, entry, returned >>
    /\ UNCHANGED << values, block, workers, batch,
                    accounts, main, submitted, from_account,
                    updates, results >>

\* Variant: one loop that writes each update and tests the balance afterwards.
ValidateAfterWrite(t) ==
    /\ pc[t] = "validate"
    /\ LET written == ApplyUpdate(accounts, updates[t][index[t]])
       IN /\ accounts' = written
          /\ IF Get(written, updates[t][index[t]].name, 0) < 0
             THEN /\ pc' = [pc EXCEPT ![t] = "rejected"]
                  /\ index' = [index EXCEPT ![t] = 0]
                  /\ entry' = <<>>
                  /\ Release(t)
               /\ Returns(t, FALSE)
             ELSE /\ IF index[t] < Len(updates[t])
                     THEN /\ index' = [index EXCEPT ![t] = index[t] + 1]
                          /\ pc' = pc
                          /\ UNCHANGED returned
                     ELSE /\ index' = [index EXCEPT ![t] = 0]
                          /\ pc' = [pc EXCEPT ![t] = "committed"]
                          /\ Returns(t, TRUE)
                  /\ UNCHANGED << lock, entry >>
    /\ UNCHANGED << values, block, workers, batch,
                    main, submitted, from_account, updates, results >>

\* execute_updates: one iteration of the validation loop (lines 33-36); the
\* early return leaves the with block and releases the lock
Validate(t) ==
    /\ pc[t] = "validate"
    /\ IF ValidationFails(accounts, updates[t][index[t]])
       THEN /\ pc' = [pc EXCEPT ![t] = "rejected"]
            /\ index' = [index EXCEPT ![t] = 0]
            /\ entry' = <<>>
            /\ Release(t)
            /\ Returns(t, FALSE)
       ELSE /\ IF index[t] < Len(updates[t])
               THEN /\ index' = [index EXCEPT ![t] = index[t] + 1]
                    /\ pc' = pc
               ELSE /\ index' = [index EXCEPT ![t] = 1]
                    /\ pc' = [pc EXCEPT ![t] = "apply"]
            /\ UNCHANGED << lock, entry, returned >>
    /\ UNCHANGED << values, block, workers, batch,
                    accounts, main, submitted, from_account,
                    updates, results >>

\* execute_updates: one iteration of the second loop (lines 38-42); after the
\* last one the with block ends and the lock is released
Apply(t) ==
    /\ pc[t] = "apply"
    /\ accounts' = ApplyUpdate(accounts, updates[t][index[t]])
    /\ IF index[t] < Len(updates[t])
       THEN /\ index' = [index EXCEPT ![t] = index[t] + 1]
            /\ UNCHANGED << pc, lock, entry, returned >>
       ELSE /\ index' = [index EXCEPT ![t] = 0]
            /\ pc' = [pc EXCEPT ![t] = "committed"]
            /\ entry' = <<>>
            /\ Release(t)
            /\ Returns(t, TRUE)
    /\ UNCHANGED << values, block, workers, batch,
                    main, submitted, from_account, updates, results >>

Next ==
    \/ Submit
    \/ MapDone
    \/ Join
    \/ ReadBack
    \/ \E t \in Tasks : Start(t)
    \/ \E t \in Tasks : GetAccountLock(t)
    \/ \E t \in Tasks : GetAccountRead(t)
    \/ \E t \in Tasks : Propose(t)
    \/ \E t \in Tasks : ExecuteUpdatesLock(t)
    \/ \E t \in Tasks : Validate(t)
    \/ \E t \in Tasks : Apply(t)

Spec == Init /\ [][Next]_vars

(***************************************************************************)
(* Helpers of the properties.                                              *)
(***************************************************************************)
NamesOf(accts) == [i \in 1..Len(accts) |-> accts[i].name]

IsPrefix(s, t) == Len(s) <= Len(t) /\ SubSeq(t, 1, Len(s)) = s

RECURSIVE Total(_)
Total(accts) ==
    IF accts = <<>> THEN 0
    ELSE accts[Len(accts)].balance + Total(SubSeq(accts, 1, Len(accts) - 1))

\* every name the run can mention
MentionedNames ==
    { values[i].name : i \in 1..Len(values) }
        \cup { block[t].from_acc : t \in Tasks }
        \cup { block[t].to_acc : t \in Tasks }

\* what the committed transfers among tasks 1..k took from and gave to a name
RECURSIVE Debited(_, _)
Debited(name, k) ==
    IF k = 0 THEN 0
    ELSE Debited(name, k - 1)
         + (IF pc[k] = "committed" /\ block[k].from_acc = name
            THEN block[k].value ELSE 0)

RECURSIVE Credited(_, _)
Credited(name, k) ==
    IF k = 0 THEN 0
    ELSE Credited(name, k - 1)
         + (IF pc[k] = "committed" /\ block[k].to_acc = name
            THEN block[k].value ELSE 0)

InitialBalance(name) == Get(MakeDict(values), name, 0)

(***************************************************************************)
(* C1. Non-negativity: whenever no task is inside a locked section, every  *)
(* balance stored in the ledger is >= 0.                                   *)
(***************************************************************************)
C1_NonNegative ==
    lock = 0 => \A i \in 1..Len(accounts) : accounts[i].balance >= 0

\* two transfers raced for the same funds: one was applied and emptied an
\* account, the other was turned down by execute_updates
C1_Witness ==
    /\ lock = 0
    /\ \E t, u \in Tasks :
          /\ pc[t] = "committed" /\ block[t].value > 0
          /\ Get(accounts, block[t].from_acc, 0) = 0
          /\ pc[u] = "rejected"

(***************************************************************************)
(* C2. Example 1 always returns expected_output_1 (A=15, B=25, C=50), in   *)
(* every interleaving.                                                     *)
(***************************************************************************)
C2_Example1Deterministic ==
    (/\ values = account_values_example_1
     /\ block = block_example_1
     /\ main = "returned") => results = expected_output_1

(***************************************************************************)
(* C3. No double spend: when execute_updates is about to write a           *)
(* transfer's batch, the source holds at least the amount debited; hence   *)
(* the committed transfers never take more from an account than it started *)
(* with plus what committed transfers gave it.                             *)
(***************************************************************************)
C3_NoDoubleSpend ==
    /\ \A t \in Tasks :
          pc[t] = "apply" /\ index[t] = 1 =>
              /\ accounts = entry
              /\ Get(accounts, block[t].from_acc, 0) >= block[t].value
    /\ \A name \in MentionedNames :
          Debited(name, Len(block)) <=
              InitialBalance(name) + Credited(name, Len(block))

\* two transfers from one account each read enough funds, their amounts
\* together exceed what the account ever held, and only one was applied
C3_Witness ==
    \E t, u \in Tasks :
        /\ t # u
        /\ block[t].from_acc = block[u].from_acc
        /\ block[t].from_acc \notin { block[w].to_acc : w \in Tasks }
        /\ from_account[t] >= block[t].value
        /\ from_account[u] >= block[u].value
        /\ block[t].value + block[u].value > InitialBalance(block[t].from_acc)
        /\ pc[t] = "committed"
        /\ pc[u] = "rejected"

(***************************************************************************)
(* C4. Conservation: the step that completes a transfer's batch leaves the *)
(* sum of all balances equal to the sum when execute_updates was entered   *)
(* (also when it created accounts), and the balances execute_block returns *)
(* add up to the initial balances.                                         *)
(***************************************************************************)
C4_Conservation ==
    /\ [][\A t \in Tasks :
             pc[t] = "apply" /\ pc'[t] = "committed" =>
                 Total(accounts') = Total(entry)]_vars
    /\ [](main = "returned" => Total(results) = Total(values))

\* a transfer of a positive amount created its destination, and a transfer
\* of zero created its source
C4_Witness ==
    /\ main = "returned"
    /\ \E t \in Tasks :
          /\ pc[t] = "committed" /\ block[t].value > 0
          /\ ~Has(values, block[t].to_acc)
    /\ \E t \in Tasks :
          /\ pc[t] = "committed" /\ block[t].value = 0
          /\ ~Has(values, block[t].from_acc)

(***************************************************************************)
(* C6. Batch atomicity: at most one task is inside get_account's or        *)
(* execute_updates' locked section, and it is the holder of the lock; so   *)
(* while one call validates and writes, no other task reads or writes, and *)
(* the mapping a get_account reads from holds exactly the initial balances *)
(* plus the whole batches of the committed transfers.                      *)
(***************************************************************************)
InLockedSection(t) == pc[t] \in {"get_account_read", "validate", "apply"}

WholeBatchesOnly ==
    \A name \in MentionedNames :
        Get(accounts, name, 0) =
            InitialBalance(name) + Credited(name, Len(block))
                - Debited(name, Len(block))

C6_BatchAtomicity ==
    /\ \A t, u \in Tasks : InLockedSection(t) /\ InLockedSection(u) => t = u
    /\ \A t \in Tasks : InLockedSection(t) <=> lock = t
    /\ \A t \in Tasks : pc[t] = "get_account_read" => WholeBatchesOnly

\* a batch is half written (source debited, destination not yet credited)
\* while another task waits for the lock to read that very source
C6_Witness ==
    \E t, u \in Tasks :
        /\ t # u
        /\ pc[t] = "apply" /\ index[t] = 2 /\ block[t].value > 0
        /\ block[t].from_acc # block[t].to_acc
        /\ pc[u] = "get_account"
        /\ block[u].from_acc = block[t].from_acc

(***************************************************************************)
(* C7. Full barrier: once the pool has been shut down, every task has      *)
(* finished and the lock is free; from then on no task moves and the       *)
(* mapping does not change, and the result is the mapping read after that. *)
(***************************************************************************)
C7_FullBarrier ==
    /\ [](main \in {"joined", "returned"} =>
             /\ submitted = Len(block)
             /\ \A t \in Tasks : pc[t] \in Finished
             /\ lock = 0)
    /\ [](main = "returned" => results = Items(accounts))
    /\ [][(main = "joined" \/ main = "returned") =>
             (pc' = pc /\ accounts' = accounts /\ lock' = lock)]_vars

\* the result was returned for a block whose tasks ran both phases
C7_Witness ==
    /\ main = "returned"
    /\ Len(block) >= 2
    /\ \E t, u \in Tasks : pc[t] = "committed" /\ pc[u] = "rejected"

(***************************************************************************)
(* C8. Transfers over pairwise disjoint accounts: every interleaving       *)
(* returns the balances of the run in block order, and for example 2 the   *)
(* result is exactly expected_output_2 (A=5, B=25, C=20, D=50).            *)
(***************************************************************************)
Touched(tr) == {tr.from_acc, tr.to_acc}

PairwiseDisjoint(trs) ==
    \A i, j \in 1..Len(trs) : i # j => Touched(trs[i]) \cap Touched(trs[j]) = {}

AsSet(accts) == { accts[i] : i \in 1..Len(accts) }

C8_DisjointTransfers ==
    main = "returned" =>
        /\ PairwiseDisjoint(block) =>
               AsSet(results) = AsSet(Items(RunInOrder(MakeDict(values), block)))
        /\ (values = account_values_example_2 /\ block = block_example_2) =>
               results = expected_output_2

\* two disjoint transfers each created its destination, the second one
\* first: the result lists the accounts in another order than the run in
\* block order does, with the same balances
C8_Witness ==
    /\ main = "returned"
    /\ Len(block) = 2
    /\ PairwiseDisjoint(block)
    /\ pc = << "committed", "committed" >>
    /\ block[1].value > 0 /\ block[2].value > 0
    /\ results # Items(RunInOrder(MakeDict(values), block))

(***************************************************************************)
(* C9. Output order: the mapping never holds a name twice, only ever grows *)
(* at its end (no account is removed or moved), starts with the names of   *)
(* the initial list in their order, and is returned in its own order.      *)
(***************************************************************************)
NoDuplicates(s) == \A i, j \in 1..Len(s) : i # j => s[i] # s[j]

C9_OutputOrder ==
    /\ [](/\ NoDuplicates(NamesOf(accounts))
          /\ IsPrefix(NamesOf(values), NamesOf(accounts))
          /\ main = "returned" => NamesOf(results) = NamesOf(accounts))
    /\ [][IsPrefix(NamesOf(accounts), NamesOf(accounts'))]_vars

\* two accounts were created, the later transaction's before the earlier's
C9_Witness ==
    /\ main = "returned"
    /\ Len(results) = Len(values) + 2
    /\ \E t, u \in Tasks :
          /\ t < u
          /\ results[Len(results)].name = block[t].to_acc
          /\ results[Len(results) - 1].name = block[u].to_acc

(***************************************************************************)
(* C10. Unknown source: a get_account of a name missing from the mapping   *)
(* reads balance 0 and leaves the mapping alone; a task that read less     *)
(* than a positive amount proposes no update and is abandoned, without     *)
(* touching the mapping; an abandoned task never calls execute_updates.    *)
(***************************************************************************)
C10_UnknownSource ==
    [][\A t \in Tasks :
          /\ (/\ pc[t] = "get_account_read"
              /\ pc'[t] # pc[t]
              /\ ~Has(accounts, block[t].from_acc)) =>
                 /\ from_account'[t] = 0
                 /\ accounts' = accounts
          /\ (/\ pc[t] = "updates"
              /\ pc'[t] # pc[t]
              /\ block[t].value > 0
              /\ from_account[t] = 0) =>
                 /\ pc'[t] = "abandoned"
                 /\ updates'[t] = <<>>
                 /\ accounts' = accounts
          /\ pc[t] = "updates" => from_account'[t] = from_account[t]
          /\ pc[t] = "abandoned" =>
                 /\ pc'[t] = "abandoned"
                 /\ updates'[t] = <<>>]_vars

\* a transfer of a positive amount from a name the ledger never held has
\* been abandoned, and the name is still missing from the result
C10_Witness ==
    /\ main = "returned"
    /\ \E t \in Tasks :
          /\ block[t].value > 0
          /\ pc[t] = "abandoned"
          /\ ~Has(results, block[t].from_acc)
          /\ \E u \in Tasks : pc[u] = "committed" /\ block[u].value > 0

(***************************************************************************)
(* C11. New-account credit: when a transfer of v is applied and its        *)
(* destination was missing from the mapping when execute_updates took the  *)
(* lock, the call leaves the destination in the mapping with balance       *)
(* exactly v and the source v lower than it found it.                      *)
(***************************************************************************)
C11_NewAccountCredit ==
    [][\A t \in Tasks :
          (/\ pc[t] = "apply"
           /\ pc'[t] = "committed"
           /\ ~Has(entry, block[t].to_acc)) =>
              /\ Has(accounts', block[t].to_acc)
              /\ Get(accounts', block[t].to_acc, 0) = block[t].value
              /\ Get(accounts', block[t].from_acc, 0) =
                     Get(entry, block[t].from_acc, 0) - block[t].value]_vars

\* a positive amount went to a name the initial list does not hold, and the
\* new account holds exactly that amount
C11_Witness ==
    \E t \in Tasks :
        /\ pc[t] = "committed"
        /\ block[t].value > 0
        /\ ~Has(values, block[t].to_acc)
        /\ \A u \in Tasks : u # t => block[u].to_acc # block[t].to_acc
        /\ Get(accounts, block[t].to_acc, 0) = block[t].value
        /\ lock = 0

(***************************************************************************)
(* The ledger on its own: a caller that hands execute_updates one batch of *)
(* AccountUpdates after the other, as any Transaction variant may produce  *)
(* them (any signed change, a name more than once).  Each call is the      *)
(* whole of lines 30-42.                                                   *)
(***************************************************************************)
MaxBatch == 2

LedgerNames == {"A", "B"}

SmallBatches ==
    SeqsUpTo([name : LedgerNames, balance_change : (0 - MaxValue)..MaxValue],
             MaxBatch)

\* the explored ledgers stay within these balances
LedgerCap == MaxBalance

WithinCap(accts) ==
    \A i \in 1..Len(accts) :
        accts[i].balance >= 0 - LedgerCap /\ accts[i].balance <= LedgerCap

\* AccountState(accounts) is built directly, from any small mapping with
\* balances >= 0
LedgerInit ==
    /\ values = <<>>
    /\ block = <<>>
    /\ accounts \in { MakeDict(v) : v \in SmallValues }
    /\ lock = 0
    /\ main = "ledger"
    /\ submitted = 0
    /\ pc = <<>>
    /\ from_account = <<>>
    /\ updates = <<>>
    /\ index = <<>>
    /\ entry = accounts
    /\ results = <<>>
    /\ workers = 0                 \* no pool is built
    /\ returned = <<>>
    /\ batch = <<>>

LedgerCall(ups) ==
    /\ main = "ledger"
    /\ batch' = ups
    /\ entry' = accounts
    /\ accounts' = execute_updates(accounts, ups)
    /\ WithinCap(accounts')
    /\ UNCHANGED << values, block, lock, main, submitted, pc, from_account,
                    updates, index, results, workers, returned >>

LedgerNext == \E ups \in SmallBatches : LedgerCall(ups)

LedgerSpec == LedgerInit /\ [][LedgerNext]_vars

(***************************************************************************)
(* C12. Ledger-level non-negativity: after any sequence of execute_updates *)
(* calls with arbitrary batches, started from balances >= 0, every account *)
(* of the ledger has a balance >= 0.                                       *)
(***************************************************************************)
C12_LedgerNonNegative ==
    \A i \in 1..Len(accounts) : accounts[i].balance >= 0

(***************************************************************************)
(* C13. Propose/apply race with silent drop: a task only validates after   *)
(* having read enough funds; when a validation test then fails, the task   *)
(* ends rejected, with the lock free and the mapping as the call found it; *)
(* a finished task never moves again (no retry), so with the lock free the *)
(* balances are the initial ones plus each committed batch exactly once.   *)
(***************************************************************************)
C13_SilentDrop ==
    /\ [][\A t \in Tasks :
             /\ (/\ pc[t] = "validate"
                 /\ ValidationFails(accounts, updates[t][index[t]])
                 /\ (pc'[t] # pc[t] \/ index'[t] # index[t])) =>
                    /\ pc'[t] = "rejected"
                    /\ accounts' = entry
                    /\ lock' = 0
             /\ pc[t] \in Finished =>
                    (pc'[t] = pc[t] /\ updates'[t] = updates[t])]_vars
    /\ [](\A t \in Tasks :
             pc[t] \in {"validate", "apply", "rejected", "committed"} =>
                 from_account[t] >= block[t].value)
    /\ [](lock = 0 => WholeBatchesOnly)

\* the run is over: a transfer that had read enough funds was rejected
\* because another one had drained the same source in between, and the
\* source holds what the committed one left
C13_Witness ==
    /\ main = "returned"
    /\ \E t, u \in Tasks :
          /\ pc[t] = "rejected"
          /\ from_account[t] >= block[t].value
          /\ block[t].value > 0
          /\ pc[u] = "committed"
          /\ block[u].from_acc = block[t].from_acc
          /\ block[u].to_acc # block[u].from_acc
          /\ Get(accounts, block[t].from_acc, 0) < block[t].value
          /\ Get(accounts, block[t].from_acc, 0) =
                 InitialBalance(block[t].from_acc) - block[u].value

(***************************************************************************)
(* C14. Serializability: the accounts and balances execute_block returns   *)
(* are those of running the block's transactions one at a time, each one   *)
(* whole, in some order.                                                   *)
(***************************************************************************)
Orders(n) == { f \in [1..n -> 1..n] : \A i, j \in 1..n : i # j => f[i] # f[j] }

Reordered(trs, f) == [i \in 1..Len(trs) |-> trs[f[i]]]

C14_Serializable ==
    main = "returned" =>
        \E f \in Orders(Len(block)) :
            AsSet(results) =
                AsSet(Items(RunInOrder(MakeDict(values), Reordered(block, f))))

\* the result is not the one of the run in block order: only another order
\* of the transactions explains it
C14_Witness ==
    /\ main = "returned"
    /\ AsSet(results) # AsSet(Items(RunInOrder(MakeDict(values), block)))
    /\ \E t \in Tasks : pc[t] = "rejected"

(***************************************************************************)
(* C15. Clamp on create, as claimed: some ledger (the current one or any   *)
(* small one) and some batch exist such that execute_updates accepts the   *)
(* batch and its second loop creates an account from a negative change     *)
(* (storing max(0, change) = 0).                                           *)
(***************************************************************************)
SmallLedgers ==
    { a \in SeqsUpTo([name : LedgerNames, balance : (0 - LedgerCap)..LedgerCap],
                     Cardinality(LedgerNames)) :
          NoDuplicates(NamesOf(a)) }

\* the batch passes validation and its i-th update, negative, finds its
\* account missing when the second loop gets to it
ClampsOnCreate(accts, ups, i) ==
    /\ ~ \E j \in 1..Len(ups) : ValidationFails(accts, ups[j])
    /\ ups[i].balance_change < 0
    /\ ~Has(ApplyAll(accts, SubSeq(ups, 1, i - 1)), ups[i].name)

C15_ClampReachable ==
    \E accts \in SmallLedgers \cup {accounts}, ups \in SmallBatches :
        \E i \in 1..Len(ups) : ClampsOnCreate(accts, ups, i)

(***************************************************************************)
(* C15, as the code has it: a call whose batch holds a negative change for *)
(* an account missing from the ledger leaves the ledger as it was; and     *)
(* every account a call creates is named first by an update with a change *)
(* >= 0 and ends up with the sum of the batch's changes for it, so nothing *)
(* is clamped away.                                                        *)
(***************************************************************************)
RECURSIVE ChangesFor(_, _)
ChangesFor(ups, name) ==
    IF ups = <<>> THEN 0
    ELSE (IF Head(ups).name = name THEN Head(ups).balance_change ELSE 0)
         + ChangesFor(Tail(ups), name)

C15_ClampUnreachable ==
    /\ (\E i \in 1..Len(batch) :
           batch[i].balance_change < 0 /\ ~Has(entry, batch[i].name))
       => accounts = entry
    /\ \A k \in 1..Len(accounts) :
           ~Has(entry, accounts[k].name) =>
               /\ \E i \in 1..Len(batch) :
                     /\ batch[i].name = accounts[k].name
                     /\ \A j \in 1..(i - 1) : batch[j].name # accounts[k].name
                     /\ batch[i].balance_change >= 0
               /\ accounts[k].balance = ChangesFor(batch, accounts[k].name)

\* a batch with a fine update and a negative change for a missing account
\* was handed to a ledger holding funds, and the ledger is as before
C15_Witness ==
    /\ main = "ledger"
    /\ Len(batch) = 2
    /\ batch[1].balance_change > 0 /\ Has(entry, batch[1].name)
    /\ batch[2].balance_change < 0 /\ ~Has(entry, batch[2].name)
    /\ accounts = entry

(***************************************************************************)
(* The same program with the pool size as an input: the default sizes of   *)
(* line 83 and the small sizes of ThreadPoolExecutor(max_workers=n)        *)
(* (line 82), under a scheduler that never stops while some thread can     *)
(* take a step.                                                            *)
(***************************************************************************)
MaxPool == 3

\* blocks over two names: every pair of transfers shares an account
PoolBlocks ==
    SeqsUpTo([from_acc : LedgerNames, to_acc : LedgerNames, value : 0..MaxValue],
             MaxTransactions)

PoolInit ==
    /\ \/ /\ values = account_values_example_1
          /\ block = block_example_1
       \/ /\ values = account_values_example_2
          /\ block = block_example_2
       \/ /\ values \in SmallValues
          /\ block \in PoolBlocks \cup DisjointBlocks
    /\ accounts = MakeDict(values)
    /\ lock = 0
    /\ main = "map"
    /\ submitted = 0
    /\ pc = [t \in Tasks |-> "new"]
    /\ from_account = [t \in Tasks |-> 0]
    /\ updates = [t \in Tasks |-> <<>>]
    /\ index = [t \in Tasks |-> 0]
    /\ entry = <<>>
    /\ results = <<>>
    /\ workers \in (1..MaxPool) \cup DefaultPools
    /\ returned = [t \in Tasks |-> "pending"]
    /\ batch = <<>>

FairSpec == PoolInit /\ [][Next]_vars /\ WF_vars(Next)

(***************************************************************************)
(* C16. Termination and deadlock freedom: for every pool size >= 1, under  *)
(* fair scheduling every task finishes, the lock ends up free, and         *)
(* execute_block returns its results.                                      *)
(***************************************************************************)
C16_Termination ==
    <>(/\ main = "returned"
       /\ \A t \in Tasks : pc[t] \in Finished
       /\ lock = 0)

\* a pool of one worker has run a block of several transactions to the end,
\* one after the other
C16_Witness ==
    /\ workers = 1
    /\ Len(block) >= 2
    /\ main = "returned"
    /\ \E t \in Tasks : pc[t] = "abandoned"
    /\ \E t \in Tasks : pc[t] = "committed"

(***************************************************************************)
(* C17. Propose is read-only: no step of get_account or Transfer.updates   *)
(* changes the mapping; the read of a name hands back its balance, or 0    *)
(* for a missing name, which stays missing; an infeasible propose yields   *)
(* the empty update list; the mapping only ever changes in a step of the   *)
(* second loop of an execute_updates call that passed validation.          *)
(***************************************************************************)
C17_ProposeReadOnly ==
    [][/\ \A t \in Tasks :
             /\ (/\ pc[t] \in {"get_account", "get_account_read", "updates"}
                 /\ pc'[t] # pc[t]) => accounts' = accounts
             /\ (pc[t] = "get_account_read" /\ pc'[t] # pc[t]) =>
                    /\ from_account'[t] =
                           (IF Has(accounts, block[t].from_acc)
                            THEN Get(accounts, block[t].from_acc, 0) ELSE 0)
                    /\ Has(accounts', block[t].from_acc)
                           <=> Has(accounts, block[t].from_acc)
             /\ (pc[t] = "updates" /\ pc'[t] = "abandoned") => updates'[t] = <<>>
       /\ accounts' # accounts =>
             \E t \in Tasks :
                 /\ pc[t] = "apply" /\ lock = t
                 /\ (pc'[t] = "committed" \/ index'[t] = index[t] + 1)]_vars

\* every transaction of the block was proposed and found infeasible, one of
\* them from a missing account; the ledger is returned as it was built
C17_Witness ==
    /\ main = "returned"
    /\ Len(block) >= 2
    /\ \A t \in Tasks : pc[t] = "abandoned"
    /\ \E t \in Tasks : ~Has(values, block[t].from_acc)
    /\ \E t \in Tasks : Has(values, block[t].from_acc)
    /\ results = Items(MakeDict(values))

(***************************************************************************)
(* C18. Locked read-back, as claimed: the step of execute_block that reads *)
(* the mapping back is taken with the ledger lock held.                    *)
(***************************************************************************)
C18_LockedReadBack ==
    [][(main = "joined" /\ main' = "returned") => (lock # 0 \/ lock' # 0)]_vars

(***************************************************************************)
(* C18, as the code has it: the read-back takes no lock; it is taken when  *)
(* every task has finished and the lock is free, and returns the mapping   *)
(* as it then is.  Every step of a task that reads or writes the mapping   *)
(* is taken by the holder of the lock.                                     *)
(***************************************************************************)
C18_ReadBackAfterJoin ==
    [][/\ (main = "joined" /\ main' = "returned") =>
             /\ lock = 0 /\ lock' = 0
             /\ \A t \in Tasks : pc[t] \in Finished
             /\ results' = Items(accounts)
       /\ \A t \in Tasks :
             (/\ pc[t] \in {"get_account_read", "validate", "apply"}
              /\ (pc'[t] # pc[t] \/ index'[t] # index[t])) => lock = t
       /\ accounts' # accounts => lock # 0]_vars

\* the mapping was read back with the lock free after workers had used it
C18_Witness ==
    /\ main = "returned"
    /\ lock = 0
    /\ results = Items(accounts)
    /\ results # Items(MakeDict(values))
    /\ \A t \in Tasks : pc[t] = "committed"
    /\ Len(block) >= 2

(***************************************************************************)
(* C19. Apply outcome reported, as claimed: a finished execute_updates     *)
(* call has returned False when a check failed and True when the batch was *)
(* applied.                                                                *)
(***************************************************************************)
C19_OutcomeReported ==
    \A t \in Tasks :
        /\ pc[t] = "rejected" => returned[t] = "False"
        /\ pc[t] = "committed" => returned[t] = "True"

(***************************************************************************)
(* C19, as the code has it: execute_updates returns None on both paths, so *)
(* a rejected and an applied batch return the same value; a task that did  *)
(* not call it has no return value.                                        *)
(***************************************************************************)
C19_ReturnsNone ==
    \A t \in Tasks :
        /\ pc[t] \in {"rejected", "committed"} => returned[t] = "None"
        /\ pc[t] \notin {"rejected", "committed"} => returned[t] = "pending"

\* one call was turned down and another applied, with the same return value
C19_Witness ==
    \E t, u \in Tasks :
        /\ pc[t] = "rejected"
        /\ pc[u] = "committed"
        /\ returned[t] = returned[u]

(***************************************************************************)
(* C20. Zero-amount transfers: a transfer of 0 is never abandoned and      *)
(* never rejected, and the call that applies it leaves the mapping as it   *)
(* found it, followed by the source (if missing) and then the destination  *)
(* (if missing), each with balance 0.                                      *)
(***************************************************************************)
CreatedByZero(accts, tr) ==
    (IF Has(accts, tr.from_acc) THEN <<>>
     ELSE << AccountValue(tr.from_acc, 0) >>)
    \o (IF Has(accts, tr.to_acc) \/ tr.to_acc = tr.from_acc THEN <<>>
        ELSE << AccountValue(tr.to_acc, 0) >>)

C20_ZeroAmount ==
    /\ [](\A t \in Tasks :
             block[t].value = 0 => pc[t] \notin {"abandoned", "rejected"})
    /\ [][\A t \in Tasks :
             (block[t].value = 0 /\ pc[t] = "apply" /\ pc'[t] = "committed") =>
                 accounts' = entry \o CreatedByZero(entry, block[t])]_vars

\* a transfer of 0 between two names the ledger never held has put both in
\* the result, source first, with balance 0
C20_Witness ==
    /\ main = "returned"
    /\ \E t \in Tasks :
          /\ block[t].value = 0
          /\ pc[t] = "committed"
          /\ block[t].from_acc # block[t].to_acc
          /\ \E k \in (Len(values) + 1)..(Len(results) - 1) :
                /\ results[k] = AccountValue(block[t].from_acc, 0)
                /\ results[k + 1] = AccountValue(block[t].to_acc, 0)

(***************************************************************************)
(* A direct call of execute_updates: one thread, numbered 1, calls it on a *)
(* ledger built from any small list of values, with any small batch of     *)
(* AccountUpdates (any signed change, a name more than once, names the     *)
(* ledger lacks).  The call runs lines 30-42 step by step: the lock, the   *)
(* first loop with its early return, the second loop.  No block is run.    *)
(***************************************************************************)
CallInit ==
    /\ values \in SmallValues
    /\ block = <<>>
    /\ accounts = MakeDict(values)
    /\ lock = 0
    /\ main = "call"
    /\ submitted = 0
    /\ pc = << "execute_updates" >>
    /\ from_account = << 0 >>
    /\ updates \in { << ups >> : ups \in SmallBatches }
    /\ index = << 0 >>
    /\ entry = <<>>
    /\ results = <<>>
    /\ workers = 0                 \* no pool is built
    /\ returned = << "pending" >>
    /\ batch = <<>>

CallNext ==
    \/ ExecuteUpdatesLock(1)
    \/ Validate(1)
    \/ Apply(1)

CallSpec == CallInit /\ [][CallNext]_vars

\* for some update of the batch, the balance in accts (0 if absent) plus the
\* change is negative
NegativeCheck(accts, ups) ==
    \E i \in 1..Len(ups) :
        (IF Has(accts, ups[i].name) THEN Get(accts, ups[i].name, 0) ELSE 0)
            + ups[i].balance_change < 0

(***************************************************************************)
(* C5. No partial application: when, for some update of the batch passed   *)
(* to execute_updates, the balance before the call (0 if absent) plus the  *)
(* change is negative, the call never reaches its second loop, the mapping *)
(* is at every moment of the call the mapping before the call (names,      *)
(* order and balances), and the call ends abandoned with the lock free.    *)
(***************************************************************************)
C5_NoPartialApplication ==
    \A t \in DOMAIN pc :
        NegativeCheck(MakeDict(values), updates[t]) =>
            /\ accounts = MakeDict(values)
            /\ pc[t] \in {"execute_updates", "validate", "rejected"}
            /\ pc[t] = "rejected" => lock = 0

\* a batch of two was abandoned at its second update, a debit of an account
\* the ledger lacks, after its first update, a debit, had passed its check
C5_Witness ==
    \E t \in DOMAIN pc :
        /\ pc[t] = "rejected"
        /\ Len(updates[t]) = 2
        /\ updates[t][1].balance_change < 0
        /\ Has(accounts, updates[t][1].name)
        /\ Get(accounts, updates[t][1].name, 0) + updates[t][1].balance_change >= 0
        /\ ~Has(accounts, updates[t][2].name)
        /\ updates[t][2].balance_change < 0
        /\ accounts = MakeDict(values)

====
